---------------------------- MODULE Spec2Model ----------------------------
(***************************************************************************)
(* Damped oscillator solver (src/gen_params.py): heun_step, integrate and  *)
(* main, as a state machine.                                               *)
(*                                                                         *)
(* Numbers.  A float is modelled as a pair <<n, d>>:                       *)
(*   d > 0   the finite value n/d, in lowest terms (exact arithmetic);     *)
(*   <<1,0>> +inf,  <<-1,0>> -inf,  <<0,0>> NaN.                           *)
(* Rounding of finite values is not modelled; the sign of zero is not      *)
(* modelled (no outcome of integrate depends on it: int(-0.0) = 0, and a   *)
(* division by either zero gives an infinity or NaN that int() rejects).   *)
(* The inputs are drawn from sets on which every np.sqrt argument that is  *)
(* positive is a perfect square, so np.sqrt is exact there.                *)
(***************************************************************************)
EXTENDS Integers, Sequences, FiniteSets, TLC

(***************************************************************************)
(* Bounds of the model.                                                    *)
(***************************************************************************)
\* the loop of integrate is explored for at most MaxSteps iterations
MaxSteps == 8
\* number of successive heun_step applications in the step harness
StepRuns == 4

(***************************************************************************)
(* Input sets (argparse floats, src/gen_params.py:14-20).                  *)
(***************************************************************************)
MSet     == {-1, 0, 1, 4}
CSet     == {-10, -4, 0, 2, 4, 8}
KSet     == {-1, 0, 1, 4}
DtSet    == {-1, 0, 1, 2}
X0Set    == {0, 1}
V0Set    == {0, 1}
ScaleSet == {1, 3}

(***************************************************************************)
(* Exact rational arithmetic on finite values                              *)
(***************************************************************************)
Abs(n) == IF n < 0 THEN -n ELSE n

RECURSIVE GCD(_, _)
GCD(a, b) == IF b = 0 THEN a ELSE GCD(b, a % b)

Unset == << >>
NaN   == <<0, 0>>
PInf  == <<1, 0>>
NInf  == <<-1, 0>>

R(n) == <<n, 1>>

\* n/d with d # 0, in lowest terms with a positive denominator
Norm(n, d) ==
    LET s == IF d < 0 THEN -1 ELSE 1
        g == GCD(Abs(n), Abs(d))
    IN  <<(s * n) \div g, (s * d) \div g>>

RAdd(a, b) ==
    LET g == GCD(a[2], b[2])
    IN  Norm(a[1] * (b[2] \div g) + b[1] * (a[2] \div g), (a[2] \div g) * b[2])

RNeg(a) == <<-a[1], a[2]>>

RSub(a, b) == RAdd(a, RNeg(b))

RMul(a, b) ==
    LET g1 == GCD(Abs(a[1]), b[2])
        g2 == GCD(Abs(b[1]), a[2])
    IN  IF a[1] = 0 \/ b[1] = 0 THEN <<0, 1>>
        ELSE Norm((a[1] \div g1) * (b[1] \div g2), (a[2] \div g2) * (b[2] \div g1))

\* b # 0
RDiv(a, b) == RMul(a, Norm(b[2], b[1]))

RLess(a, b) == a[1] * b[2] < b[1] * a[2]
RLeq(a, b)  == a[1] * b[2] <= b[1] * a[2]

IsFin(a)  == a # Unset /\ a[2] > 0
IsNaN(a)  == a = NaN
IsInf(a)  == a = PInf \/ a = NInf
IsZero(a) == a[2] > 0 /\ a[1] = 0
Sgn(a)    == IF a[1] < 0 THEN -1 ELSE 1

(***************************************************************************)
(* IEEE-754 operations as numpy scalars perform them (no exception: a      *)
(* division by zero or an invalid operation is a RuntimeWarning).          *)
(***************************************************************************)
NpMul(a, b) ==
    IF IsNaN(a) \/ IsNaN(b) THEN NaN
    ELSE IF IsInf(a) \/ IsInf(b)
         THEN IF IsZero(a) \/ IsZero(b) THEN NaN ELSE <<Sgn(a) * Sgn(b), 0>>
    ELSE RMul(a, b)

NpDiv(a, b) ==
    IF IsNaN(a) \/ IsNaN(b) THEN NaN
    ELSE IF IsInf(a) THEN (IF IsInf(b) THEN NaN ELSE <<Sgn(a) * Sgn(b), 0>>)
    ELSE IF IsInf(b) THEN <<0, 1>>
    ELSE IF IsZero(b) THEN (IF IsZero(a) THEN NaN ELSE <<Sgn(a), 0>>)
    ELSE RDiv(a, b)

\* integer square root of a perfect square
ISqrt(n) == CHOOSE r \in 0..n : r * r = n

NpSqrt(a) ==
    IF IsNaN(a) \/ a = NInf THEN NaN
    ELSE IF a = PInf THEN PInf
    ELSE IF a[1] < 0 THEN NaN
    ELSE <<ISqrt(a[1]), ISqrt(a[2])>>

\* np.ceil followed by int(), on a finite value
CeilInt(a) == -((-a[1]) \div a[2])

\* -np.log(0.01) = ln 100 = 4.60517..., to three decimals
LogNum == 4605
LogDen == 1000
NegLog001 == Norm(LogNum, LogDen)


(***************************************************************************)
(* heun_step (src/gen_params.py:30-49)                                     *)
(***************************************************************************)
accel(m_, c_, k_, px, pv) ==
    RSub(RMul(RNeg(RDiv(c_, m_)), pv), RMul(RDiv(k_, m_), px))

Half == <<1, 2>>

\* heun_step with the factor 0.5 of the displacement corrector left out
heun_step_NoHalf(m_, c_, k_, x, v, dt_) ==
    LET a1        == accel(m_, c_, k_, x, v)
        x_predict == RAdd(x, RMul(dt_, v))
        v_predict == RAdd(v, RMul(dt_, a1))
        a2        == accel(m_, c_, k_, x_predict, v_predict)
        x_next    == RAdd(x, RMul(dt_, RAdd(v, v_predict)))
        v_next    == RAdd(v, RMul(RMul(dt_, Half), RAdd(a1, a2)))
    IN  <<x_next, v_next>>

heun_step(m_, c_, k_, x, v, dt_) ==
    LET a1        == accel(m_, c_, k_, x, v)
        x_predict == RAdd(x, RMul(dt_, v))
        v_predict == RAdd(v, RMul(dt_, a1))
        a2        == accel(m_, c_, k_, x_predict, v_predict)
        x_next    == RAdd(x, RMul(RMul(dt_, Half), RAdd(v, v_predict)))
        v_next    == RAdd(v, RMul(RMul(dt_, Half), RAdd(a1, a2)))
    IN  <<x_next, v_next>>

(***************************************************************************)
(* The expressions of integrate (src/gen_params.py:60-72)                  *)
(***************************************************************************)
\* the guard written dt < 0, letting dt = 0 through
DtInvalid_Strict(dt_) == dt_[1] < 0

DtInvalid(dt_) == dt_[1] <= 0

\* k / m on Python floats raises ZeroDivisionError when m = 0
PyDivRaises(m_) == m_[1] = 0

OmegaOf(m_, k_) == NpSqrt(RDiv(k_, m_))

\* the damping ratio with its quotient inverted
ZetaOf_Inverted(m_, c_, k_) == NpDiv(NpMul(R(2), NpSqrt(RMul(m_, k_))), c_)

ZetaOf(m_, c_, k_) == NpDiv(c_, NpMul(R(2), NpSqrt(RMul(m_, k_))))

DurationOf(zeta_, omega_) == NpDiv(NegLog001, NpMul(zeta_, omega_))

StepsOf(duration_, dt_) == CeilInt(NpDiv(duration_, dt_))

\* np.linspace called with endpoint=False
linspace_NoEndpoint(start, stop, num) ==
    IF num = 0 THEN << >>
    ELSE LET step == RDiv(RSub(stop, start), R(num))
         IN  [j \in 1..num |-> RAdd(RMul(R(j - 1), step), start)]

\* np.linspace(start, stop, num) for num >= 0, endpoint included
linspace(start, stop, num) ==
    IF num = 0 THEN << >>
    ELSE IF num = 1 THEN <<start>>
    ELSE LET step == RDiv(RSub(stop, start), R(num - 1))
         IN  [j \in 1..num |->
                IF j = num THEN stop ELSE RAdd(RMul(R(j - 1), step), start)]

zeros(num) == [j \in 1..num |-> R(0)]

(***************************************************************************)
(* State                                                                   *)
(***************************************************************************)
VARIABLES
    m, c, k, x0, v0, dt, scale,  \* args (parse_args), fixed for the run
    parentExists,                \* plot_path.parent.exists() at start
    dirMade,                     \* main created the plot file's parent
    pc,                          \* position in main / integrate
    err,                         \* the exception that ended the run
    omega_n, zeta, duration,     \* locals of integrate
    steps, times, xs, vs, i,
    calls,                       \* number of heun_step applications
    plotted,                     \* data handed to plot_solution
    mainDuration,                \* duration recomputed by main
    paramsJs,                    \* record written to params.js
    artifacts                    \* output files written, in order

vars == <<m, c, k, x0, v0, dt, scale, parentExists, dirMade, pc, err,
          omega_n, zeta, duration, steps, times, xs, vs, i, calls,
          plotted, mainDuration, paramsJs, artifacts>>

args   == <<m, c, k, x0, v0, dt, scale, parentExists>>
locals == <<omega_n, zeta, duration, steps, times, xs, vs, i, calls>>
outs   == <<plotted, mainDuration, paramsJs, artifacts>>

NoError == "none"

Init ==
    /\ m \in {R(n) : n \in MSet}
    /\ c \in {R(n) : n \in CSet}
    /\ k \in {R(n) : n \in KSet}
    /\ x0 \in {R(n) : n \in X0Set}
    /\ v0 \in {R(n) : n \in V0Set}
    /\ dt \in {R(n) : n \in DtSet}
    /\ scale \in {R(n) : n \in ScaleSet}
    /\ parentExists \in BOOLEAN
    /\ dirMade = FALSE
    /\ pc = "start"
    /\ err = NoError
    /\ omega_n = Unset /\ zeta = Unset /\ duration = Unset
    /\ steps = 0 /\ times = << >> /\ xs = << >> /\ vs = << >>
    /\ i = 0 /\ calls = 0
    /\ plotted = << >> /\ mainDuration = Unset
    /\ paramsJs = << >> /\ artifacts = << >>

\* the exception caught around the call, main carrying on to the plot
Raise_Swallowed(e) ==
    /\ pc' = "plot"
    /\ err' = e

\* an exception propagates out of integrate and main uncaught
Raise(e) ==
    /\ pc' = "raised"
    /\ err' = e

(***************************************************************************)
(* main, before the call (src/gen_params.py:101-105)                       *)
(***************************************************************************)
Main_MkDir ==
    /\ pc = "start"
    /\ dirMade' = ~parentExists
    /\ pc' = "check_dt"
    /\ UNCHANGED <<args, err, locals, outs>>

(***************************************************************************)
(* integrate (src/gen_params.py:52-79)                                     *)
(***************************************************************************)
Integrate_CheckDt ==
    /\ pc = "check_dt"
    /\ IF DtInvalid(dt)
       THEN Raise("ValueError: dt must be positive.")
       ELSE pc' = "omega" /\ UNCHANGED err
    /\ UNCHANGED <<args, dirMade, locals, outs>>

Integrate_Omega ==
    /\ pc = "omega"
    /\ IF PyDivRaises(m)
       THEN Raise("ZeroDivisionError") /\ UNCHANGED omega_n
       ELSE pc' = "zeta" /\ omega_n' = OmegaOf(m, k) /\ UNCHANGED err
    /\ UNCHANGED <<args, dirMade, zeta, duration, steps, times, xs, vs, i,
                   calls, outs>>

Integrate_Zeta ==
    /\ pc = "zeta"
    /\ zeta' = ZetaOf(m, c, k)
    /\ pc' = "duration"
    /\ UNCHANGED <<args, dirMade, err, omega_n, duration, steps, times, xs,
                   vs, i, calls, outs>>

Integrate_Duration ==
    /\ pc = "duration"
    /\ duration' = DurationOf(zeta, omega_n)
    /\ pc' = "steps"
    /\ UNCHANGED <<args, dirMade, err, omega_n, zeta, steps, times, xs, vs,
                   i, calls, outs>>

\* steps = int(np.ceil(duration / dt))
Integrate_Steps ==
    /\ pc = "steps"
    /\ LET q == NpDiv(duration, dt)
       IN  IF IsNaN(q)
           THEN Raise("ValueError: cannot convert float NaN to integer")
                /\ UNCHANGED steps
           ELSE IF IsInf(q)
           THEN Raise("OverflowError: cannot convert float infinity to integer")
                /\ UNCHANGED steps
           ELSE pc' = "alloc" /\ steps' = StepsOf(duration, dt) /\ UNCHANGED err
    /\ UNCHANGED <<args, dirMade, omega_n, zeta, duration, times, xs, vs, i,
                   calls, outs>>

\* times = np.linspace(...); xs = np.zeros(...); vs = np.zeros(...)
Integrate_Alloc ==
    /\ pc = "alloc"
    /\ IF steps + 1 < 0
       THEN Raise("ValueError: Number of samples must be non-negative.")
            /\ UNCHANGED <<times, xs, vs>>
       ELSE /\ times' = linspace(R(0), RMul(R(steps), dt), steps + 1)
            /\ xs' = zeros(steps + 1)
            /\ vs' = zeros(steps + 1)
            /\ pc' = "first"
            /\ UNCHANGED err
    /\ UNCHANGED <<args, dirMade, omega_n, zeta, duration, steps, i, calls,
                   outs>>

\* xs[0] = x0; vs[0] = v0
Integrate_First ==
    /\ pc = "first"
    /\ IF Len(xs) = 0
       THEN Raise("IndexError: index 0 is out of bounds") /\ UNCHANGED <<xs, vs>>
       ELSE /\ xs' = [xs EXCEPT ![1] = x0]
            /\ vs' = [vs EXCEPT ![1] = v0]
            /\ pc' = "loop"
            /\ UNCHANGED err
    /\ UNCHANGED <<args, dirMade, omega_n, zeta, duration, steps, times, i,
                   calls, outs>>

\* the loop writing xs[i], vs[i] in place of xs[i + 1], vs[i + 1]
LoopTarget_Current(i_) == i_ + 1

\* the index written by iteration i of the loop (arrays are 1-based here)
LoopTarget(i_) == i_ + 2

\* for i in range(steps): xs[i + 1], vs[i + 1] = heun_step(...)
Integrate_Loop ==
    /\ pc = "loop"
    /\ i < steps
    /\ i < MaxSteps
    /\ LET nxt == heun_step(m, c, k, xs[i + 1], vs[i + 1], dt)
       IN  /\ xs' = [xs EXCEPT ![LoopTarget(i)] = nxt[1]]
           /\ vs' = [vs EXCEPT ![LoopTarget(i)] = nxt[2]]
    /\ calls' = calls + 1
    /\ i' = i + 1
    /\ UNCHANGED <<args, dirMade, pc, err, omega_n, zeta, duration, steps,
                   times, outs>>

\* return times, xs, vs
Integrate_Return ==
    /\ pc = "loop"
    /\ ~(i < steps)
    /\ pc' = "plot"
    /\ UNCHANGED <<args, dirMade, err, locals, outs>>

(***************************************************************************)
(* main, after the call (src/gen_params.py:116-135)                        *)
(***************************************************************************)
Main_Plot ==
    /\ pc = "plot"
    /\ plotted' = <<times, xs, vs>>
    /\ artifacts' = Append(artifacts, "plot")
    /\ pc' = "main_duration"
    /\ UNCHANGED <<args, dirMade, err, locals, mainDuration, paramsJs>>

Main_Duration ==
    /\ pc = "main_duration"
    /\ IF PyDivRaises(m)
       THEN Raise("ZeroDivisionError") /\ UNCHANGED mainDuration
       ELSE /\ mainDuration' = DurationOf(ZetaOf(m, c, k), OmegaOf(m, k))
            /\ pc' = "params"
            /\ UNCHANGED err
    /\ UNCHANGED <<args, dirMade, locals, plotted, paramsJs, artifacts>>

\* the record without the computed duration
ParamsRecord_NoDuration ==
    [m |-> m, c |-> c, k |-> k, y0 |-> x0, v0 |-> v0, dt |-> dt,
     scale |-> scale]

ParamsRecord ==
    [m |-> m, c |-> c, k |-> k, y0 |-> x0, v0 |-> v0, dt |-> dt,
     scale |-> scale, duration |-> mainDuration]

Main_WriteParams ==
    /\ pc = "params"
    /\ paramsJs' = ParamsRecord
    /\ artifacts' = Append(artifacts, "params.js")
    /\ pc' = "print"
    /\ UNCHANGED <<args, dirMade, err, locals, plotted, mainDuration>>

Main_Print ==
    /\ pc = "print"
    /\ pc' = "done"
    /\ UNCHANGED <<args, dirMade, err, locals, outs>>

Next ==
    \/ Main_MkDir
    \/ Integrate_CheckDt
    \/ Integrate_Omega
    \/ Integrate_Zeta
    \/ Integrate_Duration
    \/ Integrate_Steps
    \/ Integrate_Alloc
    \/ Integrate_First
    \/ Integrate_Loop
    \/ Integrate_Return
    \/ Main_Plot
    \/ Main_Duration
    \/ Main_WriteParams
    \/ Main_Print

Spec == Init /\ [][Next]_vars

(***************************************************************************)
(* Step harness: heun_step applied StepRuns times in succession from       *)
(* (x0, v0), for parameters that include c = 0 and k = 0, which integrate  *)
(* cannot run with.                                                        *)
(***************************************************************************)
StepDtSet == {<<1, 2>>, <<1, 1>>, <<2, 1>>}

StepInit ==
    /\ m \in {R(1), R(4)}
    /\ c \in {R(0), R(2)}
    /\ k \in {R(0), R(1)}
    /\ x0 \in {R(-1), R(0), R(1)}
    /\ v0 \in {R(-1), R(0), R(1)}
    /\ dt \in StepDtSet
    /\ scale = R(1)
    /\ parentExists = TRUE
    /\ dirMade = FALSE
    /\ pc = "step"
    /\ err = NoError
    /\ omega_n = Unset /\ zeta = Unset /\ duration = Unset
    /\ steps = StepRuns /\ times = << >> /\ xs = <<x0>> /\ vs = <<v0>>
    /\ i = 0 /\ calls = 0
    /\ plotted = << >> /\ mainDuration = Unset
    /\ paramsJs = << >> /\ artifacts = << >>

Step_Apply ==
    /\ pc = "step"
    /\ i < steps
    /\ LET nxt == heun_step(m, c, k, xs[i + 1], vs[i + 1], dt)
       IN  /\ xs' = Append(xs, nxt[1])
           /\ vs' = Append(vs, nxt[2])
    /\ calls' = calls + 1
    /\ i' = i + 1
    /\ UNCHANGED <<args, dirMade, pc, err, omega_n, zeta, duration, steps,
                   times, outs>>

StepNext == Step_Apply

SpecStep == StepInit /\ [][StepNext]_vars

(***************************************************************************)
(* Properties                                                              *)
(***************************************************************************)
Pos(a) == a[2] > 0 /\ a[1] > 0

Valid == Pos(m) /\ Pos(c) /\ Pos(k) /\ Pos(dt)

AfterReturn == {"plot", "main_duration", "params", "print", "done"}

\* integrate has returned a trajectory to main
Returned == pc \in AfterReturn

DtError == "ValueError: dt must be positive."

\* C1: whenever dt <= 0, for any m, c, k, x0, v0, the call of integrate
\* ends with the "dt must be positive" error and nothing has been computed:
\* omega_n, zeta and duration are never derived, heun_step is never applied,
\* no time grid or sample array exists, and main writes no artifact.
C1_DtRejected ==
    (~Pos(dt) /\ pc \notin {"start", "check_dt"}) =>
        /\ pc = "raised"
        /\ err = DtError
        /\ omega_n = Unset /\ zeta = Unset /\ duration = Unset
        /\ calls = 0
        /\ times = << >> /\ xs = << >> /\ vs = << >>
        /\ plotted = << >> /\ paramsJs = << >> /\ artifacts = << >>

C1_Witness ==
    /\ pc = "raised" /\ err = DtError
    /\ dt = R(0) /\ Pos(m) /\ Pos(c) /\ Pos(k)

\* C2: with c <= 0 and m > 0, k > 0, dt > 0 the run ends in an error and
\* integrate never returns a trajectory, not even one of a single sample.
C2_NonPositiveDampingRejected ==
    (~Pos(c) /\ Pos(m) /\ Pos(k) /\ Pos(dt)) => ~Returned

\* C3: with m <= 0 or k <= 0 the run is rejected before any integration
\* work: the duration is never derived, the time grid is never allocated,
\* heun_step is never applied, and no trajectory is returned.
C3_NonPositiveMassStiffnessRejected ==
    (~Pos(m) \/ ~Pos(k)) =>
        /\ duration = Unset
        /\ times = << >> /\ xs = << >> /\ vs = << >>
        /\ calls = 0
        /\ ~Returned

\* C4: for valid input the returned trajectory has N + 1 samples with
\* N = ceil(duration / dt); times, xs and vs have that length;
\* times[i] = i * dt for i in 0..N, so the last time is N * dt >= duration;
\* sample 0 is (0, x0, v0).
C4_TrajectoryShape ==
    (Valid /\ Returned) =>
        /\ IsFin(duration)
        /\ LET N == CeilInt(RDiv(duration, dt))
           IN  /\ N >= 0
               /\ Len(times) = N + 1 /\ Len(xs) = N + 1 /\ Len(vs) = N + 1
               /\ \A j \in 0..N : times[j + 1] = RMul(R(j), dt)
               /\ RLeq(duration, times[N + 1])
               /\ times[1] = R(0) /\ xs[1] = x0 /\ vs[1] = v0

C4_Witness ==
    Valid /\ Returned /\ Len(times) >= 4 /\ dt = R(2) /\ x0 = R(1)

\* C5: integrate is a sequential fold of heun_step: at every point of the
\* loop exactly i applications have been made, sample j+1 is heun_step of
\* sample j with the run's m, c, k, dt for every j already populated, the
\* loop makes at most N = ceil(duration/dt) applications and has made
\* exactly N when integrate returns (after the N-th application the loop
\* cannot continue and the return can be taken); and no step of the program
\* changes a sample that has already been populated.
C5_FoldInvariant ==
    (Valid /\ pc \in ({"loop"} \cup AfterReturn)) =>
        /\ steps = CeilInt(RDiv(duration, dt))
        /\ calls = i /\ i <= steps
        /\ \A j \in 1..i :
              <<xs[j + 1], vs[j + 1]>> = heun_step(m, c, k, xs[j], vs[j], dt)
        /\ \A j \in (i + 2)..(steps + 1) : xs[j] = R(0) /\ vs[j] = R(0)
        /\ Returned => calls = steps
        /\ (pc = "loop" /\ i = steps) =>
              (ENABLED Integrate_Return /\ ~ENABLED Integrate_Loop)

C5_WrittenOnce ==
    (Valid /\ pc \in ({"loop"} \cup AfterReturn)) =>
        \A j \in 1..(i + 1) : xs'[j] = xs[j] /\ vs'[j] = vs[j]

C5_SequentialFold == [](C5_FoldInvariant) /\ [][C5_WrittenOnce]_vars

C5_Witness == Valid /\ Returned /\ calls >= 5 /\ x0 = R(1)

\* C6: with c = 0 and k = 0 (m > 0, dt > 0) heun_step is pure integration:
\* after n successive steps from (x0, v0) the state is exactly
\* (x0 + v0 * n * dt, v0), for every n.
C6_PureIntegration ==
    (pc = "step" /\ c = R(0) /\ k = R(0)) =>
        \A n \in 0..i :
            /\ xs[n + 1] = RAdd(x0, RMul(v0, RMul(R(n), dt)))
            /\ vs[n + 1] = v0

C6_Witness ==
    /\ pc = "step" /\ c = R(0) /\ k = R(0)
    /\ i >= 3 /\ v0 = R(-1) /\ dt = <<1, 2>> /\ m = R(4)

\* C7: for m > 0, k > 0, c > 0 the duration integrate derives is finite
\* and strictly positive, and with m and k fixed it is strictly decreasing
\* in c: a larger c gives a smaller duration, a smaller positive c a
\* larger one.
C7_DurationMonotone ==
    (Pos(m) /\ Pos(c) /\ Pos(k) /\ duration # Unset) =>
        /\ IsFin(duration)
        /\ duration[1] > 0
        /\ \A c2 \in CSet :
              LET d2 == DurationOf(ZetaOf(m, R(c2), k), OmegaOf(m, k))
              IN  /\ c[1] < c2 => (IsFin(d2) /\ RLess(d2, duration))
                  /\ (0 < c2 /\ c2 < c[1]) => (IsFin(d2) /\ RLess(duration, d2))

C7_Witness ==
    Pos(m) /\ Pos(k) /\ c = R(4) /\ duration # Unset /\ m = R(4) /\ k = R(1)

\* the trajectory as a function of m, c, k, x0, v0, dt alone
RECURSIVE StateAfter(_, _, _, _, _, _, _)
StateAfter(m_, c_, k_, x, v, dt_, n) ==
    IF n = 0 THEN <<x, v>>
    ELSE LET s == StateAfter(m_, c_, k_, x, v, dt_, n - 1)
         IN  heun_step(m_, c_, k_, s[1], s[2], dt_)

TrajectoryOf(m_, c_, k_, x, v, dt_) ==
    LET d == DurationOf(ZetaOf(m_, c_, k_), OmegaOf(m_, k_))
        N == CeilInt(RDiv(d, dt_))
    IN  << [j \in 1..(N + 1) |-> RMul(R(j - 1), dt_)],
           [j \in 1..(N + 1) |-> StateAfter(m_, c_, k_, x, v, dt_, j - 1)[1]],
           [j \in 1..(N + 1) |-> StateAfter(m_, c_, k_, x, v, dt_, j - 1)[2]] >>

\* C8: on every successful run the exported record has exactly the fields
\* m, c, k, y0, v0, dt, scale, duration; the first seven equal the inputs;
\* the trajectory is the one determined by m, c, k, x0, v0, dt alone
\* (scale has no influence on it); and the exported duration is the
\* duration from which integrate computed the number of steps.
C8_ExportedRecord ==
    pc \in {"print", "done"} =>
        /\ DOMAIN paramsJs = {"m", "c", "k", "y0", "v0", "dt", "scale", "duration"}
        /\ paramsJs.m = m /\ paramsJs.c = c /\ paramsJs.k = k
        /\ paramsJs.y0 = x0 /\ paramsJs.v0 = v0 /\ paramsJs.dt = dt
        /\ paramsJs.scale = scale
        /\ paramsJs.duration = duration
        /\ steps = CeilInt(RDiv(paramsJs.duration, dt))
        /\ Len(times) = steps + 1
        /\ <<times, xs, vs>> = TrajectoryOf(m, c, k, x0, v0, dt)
        /\ plotted = <<times, xs, vs>>

C8_Witness ==
    pc = "done" /\ Valid /\ scale = R(3) /\ steps >= 3 /\ v0 = R(1)

\* stands for a fixed maximum number of iterations: integrate has none, and
\* any value is exceeded by some input (halving c or dt doubles steps)
IterationCap == 2 * MaxSteps

\* C9: the number of integration steps is guarded by a cap: the time grid
\* and the sample arrays are never allocated, and the loop never entered,
\* for a step count above a fixed maximum.
C9_StepsCapped ==
    (pc \in ({"first", "loop"} \cup AfterReturn)) => steps <= IterationCap

\* C10: the plot is written only after integrate has returned a complete
\* trajectory, params.js only after the plot, and on a run that ends in an
\* error neither is written; creating the plot's parent directory is the
\* only effect that can precede the failure.
C10_ArtifactOrder ==
    /\ artifacts # << >> =>
          /\ artifacts[1] = "plot"
          /\ Returned /\ pc # "plot"
          /\ err = NoError
          /\ plotted = <<times, xs, vs>>
          /\ Len(xs) = steps + 1 /\ Len(vs) = steps + 1 /\ Len(times) = steps + 1
          /\ i = steps /\ calls = steps
    /\ Len(artifacts) >= 2 => artifacts = <<"plot", "params.js">>
    /\ paramsJs # << >> => artifacts = <<"plot", "params.js">>
    /\ pc = "done" => artifacts = <<"plot", "params.js">>
    /\ pc = "raised" =>
          /\ err # NoError
          /\ artifacts = << >> /\ plotted = << >> /\ paramsJs = << >>

C10_Witness ==
    pc = "raised" /\ dirMade /\ Pos(dt) /\ duration # Unset

=============================================================================
